---- MODULE Spec2Model ----
(***************************************************************************)
(* act.plotting.TimeSeriesDisplay (src/act/plotting/plot.py): a plot       *)
(* session bound to one dataset.  The session's attributes are the         *)
(* variables; every public method is an operator from a session record to  *)
(* a session record (field exc holds the exception the call ends with, or  *)
(* "ok"), and one action per method applies it to the current session.     *)
(* A Python exception leaves the assignments made before it in place, so   *)
(* every operator returns the partially updated session when it raises.    *)
(*                                                                         *)
(* Time is counted in ticks, TicksPerDay ticks to a calendar day; a        *)
(* datetime64[D] value is a day number.  Subplot indices are 0-based       *)
(* tuples, as in the source.                                               *)
(***************************************************************************)
EXTENDS Integers, Sequences, FiniteSets

VARIABLES
    arm,        \* the dataset (self._arm), never mutated by the display
    ctor,       \* the subplot_shape the constructor was given (history)
    fig,        \* self.fig
    axes,       \* self.axes
    axs,        \* backend state of every axis of self.axes, by cell
    nfigs,      \* number of figures the backend has created
    xrng,       \* self.xrng, the x-range store (attribute may be absent)
    yrng,       \* self.yrng, the y-range store (attribute may be absent)
    time_rng,   \* self.time_rng; <<>> while the attribute is absent
    plot_vars,  \* self.plot_vars
    cbs,        \* self.cbs
    last,       \* the last call: method, arguments and how it ended (history)
    plotted,    \* completed plot calls since the last add_subplots/set_xrng call (history)
    ncalls      \* number of method calls made on the session

vars == <<arm, ctor, fig, axes, axs, nfigs, xrng, yrng, time_rng, plot_vars,
          cbs, last, plotted, ncalls>>

(***************************** bounds ***************************************)
MaxCalls == 2
MaxDays == 2
TicksPerDay == 2

(***************************** values ***************************************)
FigNone == [st |-> "None", id |-> 0]
FigDeleted == [st |-> "deleted", id |-> 0]
FigHandle(n) == [st |-> "set", id |-> n]

AxesNone == [st |-> "None", shape |-> <<>>, fig |-> 0]

NoStore == [st |-> "missing", shape |-> <<>>, data |-> <<>>]

\* np.zeros(2): the sentinel of a range store cell
Zero2 == <<0, 0>>

\* a fresh backend axis: automatic limits, nothing drawn
NewAxis == [xlim |-> <<>>, ylim |-> <<>>, bands |-> 0, lines |-> 0,
            face |-> "default", drawn |-> {}]

Errors == {"RuntimeError", "ValueError", "IndexError", "TypeError",
           "AttributeError"}

RECURSIVE SeqMin(_)
SeqMin(s) ==
    IF Len(s) = 1 THEN s[1]
    ELSE LET m == SeqMin(Tail(s)) IN IF s[1] < m THEN s[1] ELSE m

RECURSIVE SeqMax(_)
SeqMax(s) ==
    IF Len(s) = 1 THEN s[1]
    ELSE LET m == SeqMax(Tail(s)) IN IF s[1] > m THEN s[1] ELSE m

RECURSIVE Product(_)
Product(s) == IF s = <<>> THEN 1 ELSE s[1] * Product(Tail(s))

\* the cells of an array of axes (or of a range store) of the given shape;
\* shape <<>> is a bare Axes object, which has one axis and no index
Cells(shape) ==
    IF Len(shape) = 0 THEN {<<>>}
    ELSE IF Len(shape) = 1 THEN {<<k>> : k \in 0..(shape[1] - 1)}
    ELSE {<<i, j>> : i \in 0..(shape[1] - 1), j \in 0..(shape[2] - 1)}

(***************************** the dataset **********************************)
\* coordinates and fields of the dataset; vmin/vmax are the extremes of a
\* field's own data
Coords ==
    [time |-> <<3, 4, 5>>, time2 |-> <<5, 6, 8>>, height |-> <<10, 20>>]

Fields ==
    [temp |-> [dims |-> <<"time">>, vmin |-> 5, vmax |-> 9],
     refl |-> [dims |-> <<"time", "height">>, vmin |-> 1, vmax |-> 7],
     aux  |-> [dims |-> <<"time2">>, vmin |-> 2, vmax |-> 3]]

FieldNames == {"temp", "refl", "aux"}

\* dt_utils.numpy_to_arm_date: the calendar date of a time sample
numpy_to_arm_date(t) == t \div TicksPerDay

\* dt_utils.dates_between: every calendar day from sdate to edate, inclusive
dates_between(sdate, edate) ==
    IF edate < sdate THEN <<>>
    ELSE [i \in 1..(edate - sdate + 1) |-> sdate + i - 1]

\* the datasets a session may be bound to: their covered file dates are
\* absent, or 1..MaxDays consecutive days
FileDateLists ==
    {<<>>} \cup
    {[i \in 1..n |-> numpy_to_arm_date(Coords.time[1]) + i - 1] : n \in 1..MaxDays}

Datasets ==
    {[file_dates |-> fd, coords |-> Coords, fields |-> Fields] : fd \in FileDateLists}

(***************************** inputs ***************************************)
\* subplot_shape arguments: of length 0 and 3 (invalid), 1 and 2
Shapes ==
    {<<>>, <<1>>, <<2>>, <<1, 1>>, <<1, 2>>, <<2, 1>>, <<2, 2>>, <<1, 1, 1>>}

ValidShapes == {sh \in Shapes : Len(sh) \in {1, 2}}

\* subplot_index arguments: 1-tuples and 2-tuples
Indices == {<<0>>, <<1>>, <<0, 0>>, <<0, 1>>, <<1, 0>>, <<1, 1>>}

\* xrng arguments of set_xrng (ticks) and yrng arguments of set_yrng
XRngs == {<<2, 4>>, <<3, 7>>}
YRngs == {<<1, 2>>, <<4, 6>>}

(***************************** the session **********************************)
\* the session object as a record; exc is how the running call ends
Self ==
    [fig |-> fig, axes |-> axes, axs |-> axs, nfigs |-> nfigs, xrng |-> xrng,
     yrng |-> yrng, time_rng |-> time_rng, plot_vars |-> plot_vars,
     cbs |-> cbs, exc |-> "ok"]

\* TimeSeriesDisplay.__init__ before its add_subplots call
NewSession ==
    [fig |-> FigNone, axes |-> AxesNone, axs |-> <<>>, nfigs |-> 0,
     xrng |-> NoStore, yrng |-> NoStore, time_rng |-> <<>>,
     plot_vars |-> <<>>, cbs |-> <<>>, exc |-> "ok"]

Raise(s, e) == [s EXCEPT !.exc = e]

(***************************** the backend **********************************)
\* the shape of the array of axes plt.subplots(nrows, ncols) returns with its
\* default squeeze=True: a bare Axes for 1 x 1, a 1-D array when one of
\* the two is 1, a 2-D array otherwise
subplots(nrows, ncols) ==
    IF nrows = 1 /\ ncols = 1 THEN <<>>
    ELSE IF ncols = 1 THEN <<nrows>>
    ELSE IF nrows = 1 THEN <<ncols>>
    ELSE <<nrows, ncols>>

\* the session holding a new figure with a new array of axes of that shape
with_grid(s, shape) ==
    [s EXCEPT !.nfigs = s.nfigs + 1,
              !.fig = FigHandle(s.nfigs + 1),
              !.axes = [st |-> "set", shape |-> shape, fig |-> s.nfigs + 1],
              !.axs = [c \in Cells(shape) |-> NewAxis]]

\* self.axes[subplot_index]: "axes" for one axis, "subarray" for a row of
\* a 2-D array, or the exception the subscript raises
getitem(ax, subplot_index) ==
    IF ax.st = "None" \/ ax.shape = <<>> THEN "TypeError"
    ELSE IF Len(subplot_index) > Len(ax.shape) THEN "IndexError"
    ELSE IF \E k \in 1..Len(subplot_index) : subplot_index[k] >= ax.shape[k]
         THEN "IndexError"
    ELSE IF Len(subplot_index) < Len(ax.shape) THEN "subarray"
    ELSE "axes"

(***************************** range stores *********************************)
\* np.zeros(shape + (2,))
zeros(shape) ==
    [st |-> "set", shape |-> shape, data |-> [c \in Cells(shape) |-> Zero2]]

\* lines 191-194 and 214-217: the store is allocated, sized to self.axes,
\* only while the attribute is absent; hasattr short-circuits the read of
\* self.axes.shape, which a bare Axes does not have
alloc_store(store, ax) ==
    IF store.st = "set" THEN [err |-> "ok", store |-> store]
    ELSE IF ax.st = "None" \/ ax.shape = <<>>
         THEN [err |-> "AttributeError", store |-> store]
    ELSE IF Len(ax.shape) = 2 THEN [err |-> "ok", store |-> zeros(ax.shape)]
    ELSE IF Len(ax.shape) = 1 THEN [err |-> "ok", store |-> zeros(ax.shape)]
    ELSE [err |-> "ok", store |-> store]

\* np.array(xrng, dtype='datetime64[D]'): the calendar days of the two bounds
datetime64_D(rng) == <<rng[1] \div TicksPerDay, rng[2] \div TicksPerDay>>

\* store[subplot_index, :] = val.  The tuple subplot_index inside the
\* subscript is an index array over the first axis: every row it names is
\* assigned, across all columns of a 2-D store
setitem(store, subplot_index, val) ==
    LET rows == {subplot_index[k] : k \in 1..Len(subplot_index)}
    IN  IF store.st # "set" THEN [err |-> "AttributeError", store |-> store]
        ELSE IF \E r \in rows : r >= store.shape[1]
             THEN [err |-> "IndexError", store |-> store]
        ELSE [err |-> "ok",
              store |-> [store EXCEPT !.data =
                            [c \in Cells(store.shape) |->
                                IF c[1] \in rows THEN val ELSE store.data[c]]]]

\* line 340, `not self.yrng[subplot_index] == np.zeros(2)`: the subscript
\* takes the leading axes of the store, the comparison broadcasts against
\* two zeros, and the truth value of an array exists only when it has one
\* element.  "default" / "set" is the outcome, else the exception.
yrng_is_default(store, subplot_index) ==
    LET full == store.shape \o <<2>>
        n    == Len(subplot_index)
        rest == IF n >= Len(full) THEN <<>> ELSE SubSeq(full, n + 1, Len(full))
        size == IF rest = <<>> THEN 2 ELSE Product(rest)
    IN  IF n > Len(full) THEN "IndexError"
        ELSE IF \E k \in 1..n : subplot_index[k] >= full[k] THEN "IndexError"
        ELSE IF size # 1 THEN "ValueError"
        ELSE IF store.data[subplot_index] = Zero2 THEN "default"
        ELSE "set"

(***************************** the methods **********************************)
\* add_subplots, lines 113-129.  `del self.fig` removes the attribute
\* before the shape is looked at; with the attribute already removed the
\* test `self.fig is not None` itself raises AttributeError.
add_subplots(s, subplot_shape) ==
    IF s.fig.st = "deleted" THEN Raise(s, "AttributeError")
    ELSE
      LET s1 == IF s.fig.st # "None" THEN [s EXCEPT !.fig = FigDeleted] ELSE s
      IN  IF Len(subplot_shape) = 2
          THEN with_grid(s1, subplots(subplot_shape[1], subplot_shape[2]))
          ELSE IF Len(subplot_shape) = 1
          THEN LET ax == subplots(subplot_shape[1], 1)
               IN  with_grid(s1, IF subplot_shape[1] = 1 THEN <<1>> ELSE ax)
          ELSE Raise(s1, "ValueError")

\* lines 142-148: the days to shade, from the covered file dates or, when
\* there are none, from the first and last time sample
all_dates ==
    LET tv == arm.coords.time
        file_dates ==
            IF Len(arm.file_dates) = 0
            THEN <<numpy_to_arm_date(tv[1]), numpy_to_arm_date(tv[Len(tv)])>>
            ELSE arm.file_dates
    IN  dates_between(file_dates[1], file_dates[Len(file_dates)])

\* shade with the band and the line drawn once, outside the loop over days
shade_once(a, dates) ==
    [a EXCEPT !.face = "0.85", !.bands = a.bands + 1, !.lines = a.lines + 1]

\* lines 155-174 on one axis: the gray background, then one sunrise-sunset
\* band (axvspan) and one solar-noon line (axvline) per day.  The
\* ephemeris call a.sun_utc is taken to return for every day.
shade(a, dates) ==
    [a EXCEPT !.face = "0.85",
              !.bands = a.bands + Len(dates),
              !.lines = a.lines + Len(dates)]

\* day_night_background, lines 141-174
day_night_background(s, subplot_index) ==
    LET dates == all_dates
        g == getitem(s.axes, subplot_index)
    IN  IF s.axes.st = "None" THEN Raise(s, "RuntimeError")
        ELSE IF g \in Errors THEN Raise(s, g)
        ELSE IF g = "subarray" THEN Raise(s, "AttributeError")
        ELSE [s EXCEPT !.axs[subplot_index] = shade(@, dates)]

\* set_xrng, lines 188-197
set_xrng(s, rng, subplot_index) ==
    IF s.axes.st = "None" THEN Raise(s, "RuntimeError")
    ELSE
      LET a  == alloc_store(s.xrng, s.axes)
          s1 == [s EXCEPT !.xrng = a.store]
          g  == getitem(s.axes, subplot_index)
          s2 == [s1 EXCEPT !.axs[subplot_index].xlim = rng]
          w  == setitem(s2.xrng, subplot_index, datetime64_D(rng))
      IN  IF a.err # "ok" THEN Raise(s, a.err)
          ELSE IF g \in Errors THEN Raise(s1, g)
          ELSE IF g = "subarray" THEN Raise(s1, "AttributeError")
          ELSE IF w.err # "ok" THEN Raise(s2, w.err)
          ELSE [s2 EXCEPT !.xrng = w.store]

\* set_yrng without its test of self.axes
set_yrng_unguarded(s, rng, subplot_index) ==
    LET a  == alloc_store(s.yrng, s.axes)
        s1 == [s EXCEPT !.yrng = a.store]
        g  == getitem(s.axes, subplot_index)
        s2 == [s1 EXCEPT !.axs[subplot_index].ylim = rng]
        w  == setitem(s2.yrng, subplot_index, rng)
    IN  IF a.err # "ok" THEN Raise(s, a.err)
        ELSE IF g \in Errors THEN Raise(s1, g)
        ELSE IF g = "subarray" THEN Raise(s1, "AttributeError")
        ELSE IF w.err # "ok" THEN Raise(s2, w.err)
        ELSE [s2 EXCEPT !.yrng = w.store]

\* set_yrng, lines 211-220
set_yrng(s, rng, subplot_index) ==
    IF s.axes.st = "None" THEN Raise(s, "RuntimeError")
    ELSE
      LET a  == alloc_store(s.yrng, s.axes)
          s1 == [s EXCEPT !.yrng = a.store]
          g  == getitem(s.axes, subplot_index)
          s2 == [s1 EXCEPT !.axs[subplot_index].ylim = rng]
          w  == setitem(s2.yrng, subplot_index, rng)
      IN  IF a.err # "ok" THEN Raise(s, a.err)
          ELSE IF g \in Errors THEN Raise(s1, g)
          ELSE IF g = "subarray" THEN Raise(s1, "AttributeError")
          ELSE IF w.err # "ok" THEN Raise(s2, w.err)
          ELSE [s2 EXCEPT !.yrng = w.store]

\* add_colorbar, lines 240-255: `fig = self.fig` needs the attribute, the
\* subscript and ax.get_position() need one axis, fig.add_axes needs a figure
add_colorbar(s, subplot_index) ==
    LET g == getitem(s.axes, subplot_index)
    IN  IF s.axes.st = "None" THEN Raise(s, "RuntimeError")
        ELSE IF s.fig.st = "deleted" THEN Raise(s, "AttributeError")
        ELSE IF g \in Errors THEN Raise(s, g)
        ELSE IF g = "subarray" THEN Raise(s, "AttributeError")
        ELSE IF s.fig.st = "None" THEN Raise(s, "AttributeError")
        ELSE [s EXCEPT !.cbs = Append(@, [fig |-> s.fig.id, cell |-> subplot_index])]

\* default_axes keeping the bare Axes instead of wrapping it in an array
default_axes_bare(s) ==
    LET s1 == IF s.fig.st = "None"
              THEN [s EXCEPT !.nfigs = s.nfigs + 1, !.fig = FigHandle(s.nfigs + 1)]
              ELSE s
    IN  IF s1.axes.st = "None"
        THEN [s1 EXCEPT !.axes = [st |-> "set", shape |-> <<>>, fig |-> s1.nfigs],
                        !.axs = [c \in Cells(<<>>) |-> NewAxis]]
        ELSE s1

\* lines 301-306: plot creates a figure when self.fig is None and a
\* one-element array holding a single axis when self.axes is None
default_axes(s) ==
    LET s1 == IF s.fig.st = "None"
              THEN [s EXCEPT !.nfigs = s.nfigs + 1, !.fig = FigHandle(s.nfigs + 1)]
              ELSE s
    IN  IF s1.axes.st = "None"
        THEN [s1 EXCEPT !.axes = [st |-> "set", shape |-> <<1>>, fig |-> s1.nfigs],
                        !.axs = [c \in Cells(<<1>>) |-> NewAxis]]
        ELSE s1

\* lines 312 and 317: the field drawn on the axis (markers or a mesh)
draw(s, subplot_index, field) ==
    [s EXCEPT !.axs[subplot_index].drawn = @ \cup {field}]

\* shared_time_rng recomputed by every plot call
shared_time_rng_always(s, xdata) ==
    [s EXCEPT !.time_rng = <<SeqMin(xdata), SeqMax(xdata)>>]

\* lines 332-333: the shared time range is taken from the x coordinate of
\* the field being plotted, only while the attribute is absent
shared_time_rng(s, xdata) ==
    IF s.time_rng = <<>>
    THEN [s EXCEPT !.time_rng = <<SeqMin(xdata), SeqMax(xdata)>>]
    ELSE s

\* lines 347-351: the day span read back from the store for the tick
\* format; a 2-tuple index reads xrng[i, j, 1], which a 1-D store
\* (rows x 2) does not have.  common.get_date_format is taken to return.
tick_span(store, subplot_index) ==
    IF Len(subplot_index) = 1 THEN "ok"
    ELSE IF Len(store.shape) # 2 THEN "IndexError"
    ELSE IF subplot_index \notin Cells(store.shape) THEN "IndexError"
    ELSE "ok"

\* lines 338-344: the y-limit step of plot
plot_ylimit(s, ydata, subplot_index) ==
    IF s.yrng.st # "set" THEN s
    ELSE
      LET d == yrng_is_default(s.yrng, subplot_index)
      IN  IF d \in Errors THEN Raise(s, d)
          ELSE IF d = "set"
          THEN set_yrng(s, s.yrng.data[subplot_index], subplot_index)
          ELSE IF ydata = <<>> THEN Raise(s, "AttributeError")
          ELSE set_yrng(s, <<SeqMin(ydata), SeqMax(ydata)>>, subplot_index)

\* plot, lines 289-357, with the default add_nan=False
plot(s, field, subplot_index) ==
    LET dim   == arm.fields[field].dims
        xdata == arm.coords[dim[1]]
        ydata == IF Len(dim) > 1 THEN arm.coords[dim[2]] ELSE <<>>
        s1 == default_axes(s)
        g  == getitem(s1.axes, subplot_index)
        s2 == IF ydata = <<>>
              THEN LET d == day_night_background(s1, subplot_index)
                   IN  IF d.exc # "ok" THEN d ELSE draw(d, subplot_index, field)
              ELSE IF g = "subarray" THEN Raise(s1, "AttributeError")
              ELSE draw(s1, subplot_index, field)
        s3 == shared_time_rng(s2, xdata)
        s4 == set_xrng(s3, s3.time_rng, subplot_index)
        s5 == plot_ylimit(s4, ydata, subplot_index)
        t  == tick_span(s5.xrng, subplot_index)
    IN  IF s.fig.st = "deleted" THEN Raise(s, "AttributeError")
        ELSE IF g \in Errors THEN Raise(s1, g)
        ELSE IF s2.exc # "ok" THEN s2
        ELSE IF s4.exc # "ok" THEN s4
        ELSE IF s5.exc # "ok" THEN s5
        ELSE IF t # "ok" THEN Raise(s5, t)
        ELSE IF ydata # <<>> THEN add_colorbar(s5, subplot_index)
        ELSE s5

(***************************** the state machine ****************************)
NoCall == [op |-> "none", exc |-> "ok", idx |-> <<>>, field |-> "",
           rng |-> <<>>, shape |-> <<>>]

\* TimeSeriesDisplay(arm_obj, subplot_shape), lines 83-95; a constructor
\* that raises builds no session
Construct(ds, given, subplot_shape) ==
    LET s == IF given THEN add_subplots(NewSession, subplot_shape) ELSE NewSession
    IN  /\ arm = ds
        /\ ctor = [given |-> given, shape |-> subplot_shape]
        /\ s.exc = "ok"
        /\ fig = s.fig /\ axes = s.axes /\ axs = s.axs /\ nfigs = s.nfigs
        /\ xrng = s.xrng /\ yrng = s.yrng /\ time_rng = s.time_rng
        /\ plot_vars = s.plot_vars /\ cbs = s.cbs
        /\ last = NoCall
        /\ plotted = <<>>
        /\ ncalls = 0

Init ==
    \E ds \in Datasets :
        \/ Construct(ds, FALSE, <<>>)
        \/ \E sh \in ValidShapes : Construct(ds, TRUE, sh)

\* the session after a call that ended as r
Commit(r, call, done) ==
    /\ ncalls < MaxCalls
    /\ fig' = r.fig /\ axes' = r.axes /\ axs' = r.axs /\ nfigs' = r.nfigs
    /\ xrng' = r.xrng /\ yrng' = r.yrng /\ time_rng' = r.time_rng
    /\ plot_vars' = r.plot_vars /\ cbs' = r.cbs
    /\ last' = [call EXCEPT !.exc = r.exc]
    /\ plotted' = done
    /\ ncalls' = ncalls + 1
    /\ UNCHANGED <<arm, ctor>>

CallAddSubplots ==
    \E sh \in Shapes :
        Commit(add_subplots(Self, sh),
               [NoCall EXCEPT !.op = "add_subplots", !.shape = sh], <<>>)

CallDayNightBackground ==
    \E i \in Indices :
        Commit(day_night_background(Self, i),
               [NoCall EXCEPT !.op = "day_night_background", !.idx = i], plotted)

CallSetXrng ==
    \E i \in Indices, r \in XRngs :
        Commit(set_xrng(Self, r, i),
               [NoCall EXCEPT !.op = "set_xrng", !.idx = i, !.rng = r], <<>>)

CallSetYrng ==
    \E i \in Indices, r \in YRngs :
        Commit(set_yrng(Self, r, i),
               [NoCall EXCEPT !.op = "set_yrng", !.idx = i, !.rng = r], plotted)

CallAddColorbar ==
    \E i \in Indices :
        Commit(add_colorbar(Self, i),
               [NoCall EXCEPT !.op = "add_colorbar", !.idx = i], plotted)

CallPlot ==
    \E f \in FieldNames, i \in Indices :
        LET r == plot(Self, f, i)
        IN  Commit(r, [NoCall EXCEPT !.op = "plot", !.idx = i, !.field = f],
                   IF r.exc = "ok"
                   THEN Append(plotted, [idx |-> i, field |-> f])
                   ELSE plotted)

Next ==
    \/ CallAddSubplots
    \/ CallDayNightBackground
    \/ CallSetXrng
    \/ CallSetYrng
    \/ CallAddColorbar
    \/ CallPlot

Spec == Init /\ [][Next]_vars

(***************************** the claims ***********************************)
\* a step that is a call of method op
Called(op) == ncalls' = ncalls + 1 /\ last'.op = op

GuardedOps == {"day_night_background", "set_xrng", "set_yrng", "add_colorbar"}

\* subplot_index names one axis of the grid
ValidIndex(ax, i) == ax.st = "set" /\ ax.shape # <<>> /\ i \in Cells(ax.shape)

\* [min, max] of the x coordinate (first dimension) of a field
Extent(f) ==
    LET x == Coords[Fields[f].dims[1]] IN <<SeqMin(x), SeqMax(x)>>

\* the calendar days of a range of ticks, and the ticks (midnight) of a
\* range of calendar days
CalendarDays(rng) == <<rng[1] \div TicksPerDay, rng[2] \div TicksPerDay>>
Midnights(days) == <<days[1] * TicksPerDay, days[2] * TicksPerDay>>

\* the inclusive number of calendar days of the dataset's date span
SpanDays ==
    LET tv == arm.coords.time
        fd == arm.file_dates
    IN  IF Len(fd) > 0 THEN fd[Len(fd)] - fd[1] + 1
        ELSE (tv[Len(tv)] \div TicksPerDay) - (tv[1] \div TicksPerDay) + 1

\* C1: while axes is unset, each of day_night_background, set_xrng,
\* set_yrng and add_colorbar fails with RuntimeError whatever its
\* arguments, and the failed call leaves figure, axes, both range stores
\* and the colorbar list as they were.
C1_NoGridPrecondition ==
    [][(axes.st = "None" /\ (\E op \in GuardedOps : Called(op)))
        => /\ last'.exc = "RuntimeError"
           /\ fig' = fig /\ axes' = axes /\ axs' = axs /\ nfigs' = nfigs
           /\ xrng' = xrng /\ yrng' = yrng /\ cbs' = cbs]_vars

C1_Witness ==
    /\ ~ctor.given /\ ncalls = MaxCalls
    /\ last.op = "add_colorbar" /\ last.exc = "RuntimeError"
    /\ axes.st = "None" /\ fig.st = "None" /\ nfigs = 0
    /\ xrng.st = "missing" /\ yrng.st = "missing" /\ cbs = <<>>

\* C7: a session built without a grid shape has no figure and no axes, and
\* keeps none through every call other than plot and add_subplots; the
\* plot of a 1-D field at index (0,) on such a session completes, creating
\* exactly one figure and a one-element 1-D array of axes; and once axes
\* exist they stay, and the four guarded methods no longer end with the
\* precondition error.
C7_LazyGrid ==
    [][/\ (~ctor.given /\ ncalls = 0) => (fig.st = "None" /\ axes.st = "None")
       /\ (fig.st = "None" /\ axes.st = "None" /\ ncalls' = ncalls + 1
             /\ last'.op \notin {"plot", "add_subplots"})
            => (fig'.st = "None" /\ axes'.st = "None" /\ nfigs' = nfigs)
       /\ (fig.st = "None" /\ axes.st = "None" /\ Called("plot")
             /\ last'.idx = <<0>> /\ Len(Fields[last'.field].dims) = 1)
            => /\ last'.exc = "ok"
               /\ nfigs' = nfigs + 1 /\ fig' = FigHandle(nfigs')
               /\ axes' = [st |-> "set", shape |-> <<1>>, fig |-> nfigs']
               /\ DOMAIN axs' = {<<0>>}
       /\ (axes.st = "set" /\ ncalls' = ncalls + 1)
            => /\ axes'.st = "set"
               /\ last'.op \in GuardedOps => last'.exc # "RuntimeError"]_vars

C7_Witness ==
    /\ ~ctor.given /\ ncalls = 2 /\ nfigs = 1 /\ fig = FigHandle(1)
    /\ axes.shape = <<1>> /\ axs[<<0>>].drawn # {}
    /\ last.op = "set_yrng" /\ last.exc = "ok" /\ last.idx = <<0>>

\* C8: a day_night_background call on an existing subplot completes and
\* adds to that subplot exactly as many sunrise-sunset bands, and as many
\* solar-noon lines, as the dataset's date span has calendar days, and it
\* changes no other subplot.
C8_BandsPerDay ==
    [][Called("day_night_background")
        => LET c == last'.idx
           IN  /\ ValidIndex(axes, c) => last'.exc = "ok"
               /\ last'.exc = "ok"
                    => /\ axes' = axes /\ DOMAIN axs' = DOMAIN axs
                       /\ c \in DOMAIN axs
                       /\ axs'[c].bands = axs[c].bands + SpanDays
                       /\ axs'[c].lines = axs[c].lines + SpanDays
                       /\ \A d \in DOMAIN axs \ {c} : axs'[d] = axs[d]]_vars

C8_Witness ==
    /\ last.op = "day_night_background" /\ last.exc = "ok"
    /\ SpanDays > 1 /\ Len(arm.file_dates) > 1
    /\ Cardinality(DOMAIN axs) > 1
    /\ axs[last.idx].bands = 2 * SpanDays /\ axs[last.idx].lines = 2 * SpanDays
    /\ \A d \in DOMAIN axs \ {last.idx} : axs[d].bands = 0

\* the values the x-range store holds for the subplot a completed plot
\* call named (the store's rows when the store is 2-D and the index 1-D)
StoreVals(store, i) ==
    {store.data[c] : c \in {c \in Cells(store.shape) :
                              IF Len(c) = Len(i) THEN c = i ELSE c[1] = i[1]}}

\* every call of the session so far was a completed plot, at least two of
\* them, on two different subplots
PlottedAThenB ==
    /\ Len(plotted) >= 2 /\ ncalls = Len(plotted)
    /\ plotted[1].idx # plotted[2].idx

\* C2 as claimed: after plotting A then B on different subplots, the range
\* applied to either axis and the range recorded in the store for either
\* cell is A's full time extent.
C2_Original ==
    PlottedAThenB
    => \A k \in 1..2 :
          /\ axs[plotted[k].idx].xlim = Extent(plotted[1].field)
          /\ xrng.st = "set"
          /\ plotted[k].idx \in Cells(xrng.shape)
          /\ Midnights(xrng.data[plotted[k].idx]) = Extent(plotted[1].field)

\* C2 amended: the shared range is computed once, by the first plot call
\* that reaches the x-range step, from the extent of the field it plots,
\* and never changes; every subplot a plot call completed on has that
\* range on its axis and the calendar days of that range in the store;
\* after A then B it is A's extent.
C2_SharedXRange ==
    [][/\ time_rng # <<>> => time_rng' = time_rng
       /\ (time_rng = <<>> /\ time_rng' # <<>>)
            => (Called("plot") /\ time_rng' = Extent(last'.field))
       /\ (Called("plot") /\ last'.exc = "ok") => time_rng' # <<>>
       /\ \A k \in 1..Len(plotted') :
             /\ axs'[plotted'[k].idx].xlim = time_rng'
             /\ xrng'.st = "set"
             /\ StoreVals(xrng', plotted'[k].idx) = {CalendarDays(time_rng')}
       /\ (Len(plotted') >= 1 /\ ncalls' = Len(plotted'))
            => time_rng' = Extent(plotted'[1].field)]_vars

C2_Witness ==
    /\ PlottedAThenB
    /\ Extent(plotted[1].field) # Extent(plotted[2].field)
    /\ \A k \in 1..2 :
          /\ axs[plotted[k].idx].xlim = Extent(plotted[1].field)
          /\ xrng.data[plotted[k].idx] = CalendarDays(Extent(plotted[1].field))
          /\ Midnights(xrng.data[plotted[k].idx]) # Extent(plotted[1].field)

\* C3: set_yrng on subplot (0,) before anything is plotted there, then the
\* plot of a 2-D field there: the plot call completes and the y-range on
\* the axis and in the store is still the one that was set.
C3_Original ==
    [][(/\ last.op = "set_yrng" /\ last.exc = "ok" /\ last.idx = <<0>>
        /\ ValidIndex(axes, <<0>>) /\ axs[<<0>>].drawn = {}
        /\ Called("plot") /\ last'.idx = <<0>>
        /\ Len(Fields[last'.field].dims) = 2)
        => /\ last'.exc = "ok"
           /\ axs'[<<0>>].ylim = last.rng
           /\ yrng'.st = "set" /\ yrng'.data[<<0>>] = last.rng]_vars

\* no non-default y-range is recorded for the subplot
NoYRange(store, i) ==
    \/ store.st # "set"
    \/ i \in Cells(store.shape) /\ store.data[i] = Zero2

\* the minimum and maximum a plot of the field is to apply as y-range: of
\* the field's data, or of its y coordinate when it has one
OwnYRanges(f) ==
    {<<Fields[f].vmin, Fields[f].vmax>>}
    \cup (IF Len(Fields[f].dims) = 2
          THEN LET y == Coords[Fields[f].dims[2]] IN {<<SeqMin(y), SeqMax(y)>>}
          ELSE {})

\* C4: a plot call on an existing subplot with no non-default y-range set
\* applies the field's own minimum and maximum as the subplot's y-range.
C4_Original ==
    [][(/\ Called("plot") /\ fig.st = "set" /\ ValidIndex(axes, last'.idx)
        /\ NoYRange(yrng, last'.idx))
        => /\ DOMAIN axs' = DOMAIN axs
           /\ axs'[last'.idx].ylim \in OwnYRanges(last'.field)]_vars

\* a range store that exists has the shape of the grid of axes
SizedToGrid(store, ax) ==
    (store.st = "set" /\ ax.st = "set") => store.shape = ax.shape

\* a step leaves the zero sentinel in every cell other than the one it names
UnsetStayZero(store, storeP, i) ==
    storeP.st = "set"
    => \A c \in Cells(storeP.shape) \ {i} :
          (store.st # "set" \/ (c \in Cells(store.shape) /\ store.data[c] = Zero2))
          => storeP.data[c] = Zero2

\* C5: a range store that exists is sized exactly to the current grid,
\* also after add_subplots has rebuilt it, and a cell whose range was
\* never set holds the zero sentinel.
C5_Original ==
    [][/\ SizedToGrid(xrng', axes') /\ SizedToGrid(yrng', axes')
       /\ UnsetStayZero(xrng, xrng', last'.idx)
       /\ UnsetStayZero(yrng, yrng', last'.idx)]_vars

\* C6: plot_vars is empty at construction and holds the name of every
\* field a completed plot call plotted.
C6_Original ==
    /\ ncalls = 0 => plot_vars = <<>>
    /\ (last.op = "plot" /\ last.exc = "ok")
         => \E k \in 1..Len(plot_vars) : plot_vars[k] = last.field
    /\ \A n \in 1..Len(plotted) :
         \E k \in 1..Len(plot_vars) : plot_vars[k] = plotted[n].field

\* the store after a setter call holds val at cell i and, everywhere
\* else, what it held before (the sentinel when it was just allocated)
RecordedAt(store, storeP, i, val) ==
    /\ storeP.st = "set" /\ i \in Cells(storeP.shape)
    /\ storeP.data[i] = val
    /\ \A c \in Cells(storeP.shape) \ {i} :
          storeP.data[c] = IF store.st = "set" /\ c \in Cells(store.shape)
                           THEN store.data[c] ELSE Zero2

\* C9: set_xrng and set_yrng with a valid subplot index record the range at
\* exactly that cell of the store and change no other cell.
C9_Original ==
    [][/\ (Called("set_xrng") /\ ValidIndex(axes, last'.idx))
            => RecordedAt(xrng, xrng', last'.idx, CalendarDays(last'.rng))
       /\ (Called("set_yrng") /\ ValidIndex(axes, last'.idx))
            => RecordedAt(yrng, yrng', last'.idx, last'.rng)]_vars

\* C10: add_subplots with a shape of length other than 1 or 2 fails with
\* ValueError and leaves the figure and the axes the session held.
C10_Original ==
    [][(Called("add_subplots") /\ Len(last'.shape) \notin {1, 2})
        => /\ last'.exc = "ValueError"
           /\ fig' = fig /\ axes' = axes /\ axs' = axs]_vars

====
